---- MODULE Spec2Model ----
(***************************************************************************)
(* A model of the FemtoClaw talon registry (src/src/registry.rs) and of    *)
(* the manifest parser it relies on (src/src/lib.rs).                      *)
(*                                                                         *)
(* The file system is a function from absolute paths (sequences of path    *)
(* components, the root being <<>>) to nodes.  File contents are sequences *)
(* of tokens: the "---" delimiter, blank text, free text, one token per    *)
(* YAML/JSON field.  A string that the code later hands to Path::join (a   *)
(* manifest name) is kept as the sequence of path components Path::join    *)
(* sees in it: "foo" is <<"foo">>, "" is <<>>, "a/b" is <<"a","b">> and an *)
(* absolute "/ext/s2" is <<"/","ext","s2">>.                               *)
(***************************************************************************)
EXTENDS Integers, Sequences, FiniteSets, TLC

VARIABLES
    fs,      \* the file system: path -> node
    index,   \* TalonRegistry.index, the in-memory TalonIndex
    persisted, \* the TalonIndex of the last load or save that succeeded
    last,    \* record of the last operation called on the registry
    nops     \* number of operations called so far

vars == <<fs, index, persisted, last, nops>>

(***************************** bounds **************************************)

\* Number of registry operations in one behaviour.
MaxOps == 2

\* Longest path, in components, the file system accepts (PATH_MAX).
MaxPathLen == 5

(************************** program constants ******************************)

\* WalkDir::max_depth(2) in discover_talons.
MaxDepth == 2

\* content.splitn(3, "---") in TalonManifest::parse.
SplitN == 3

ManifestName == "TALON.md"

IndexName == "index.json"

DefaultVersion == "1.0"

\* TalonRegistry.talons_dir, the bound directory.
Base == <<"base">>

(****************************** tokens *************************************)

Tok(k, v) == [k |-> k, v |-> v]

Delim == Tok("---", <<>>)

Blank == Tok(" ", <<>>)

FreeText == Tok("text", <<>>)

\* A byte sequence that is not valid UTF-8.
BadUtf8 == Tok("\\xFF", <<>>)

(************************** sequences and paths ****************************)

RECURSIVE SeqOfSet(_)
SeqOfSet(S) ==
    IF S = {} THEN <<>>
    ELSE LET x == CHOOSE y \in S : TRUE IN <<x>> \o SeqOfSet(S \ {x})

Reverse(s) == [i \in 1..Len(s) |-> s[Len(s) + 1 - i]]

Range(s) == {s[i] : i \in 1..Len(s)}

IsPrefix(p, q) == Len(p) <= Len(q) /\ SubSeq(q, 1, Len(p)) = p

Parent(p) == SubSeq(p, 1, Len(p) - 1)

\* Path::join: an absolute argument replaces the receiver, an empty one
\* leaves it (with a trailing separator), anything else is appended.
PathJoin(dir, rel) ==
    IF rel # <<>> /\ rel[1] = "/" THEN Tail(rel) ELSE dir \o rel

(***************************** file system *********************************)

DirNode == [kind |-> "dir", content |-> <<>>]

FileNode(c) == [kind |-> "file", content |-> c]

Exists(f, p) == p \in DOMAIN f

IsDir(f, p) == p \in DOMAIN f /\ f[p].kind = "dir"

IsFile(f, p) == p \in DOMAIN f /\ f[p].kind = "file"

\* The paths of f at or below p.
Subtree(f, p) == {q \in DOMAIN f : IsPrefix(p, q)}

\* std::fs::remove_dir_all(p) when it succeeds.
RemoveDirAll(f, p) == [q \in DOMAIN f \ Subtree(f, p) |-> f[q]]

\* std::fs::create_dir_all(p): fails when the path is too long or when a
\* component of it is a file.
CreateDirAll(f, p) ==
    LET pre == {SubSeq(p, 1, i) : i \in 0..Len(p)}
    IN  IF Len(p) > MaxPathLen \/ \E q \in pre : IsFile(f, q)
        THEN [ok |-> FALSE, fs |-> f]
        ELSE [ok |-> TRUE,
              fs |-> [q \in DOMAIN f \cup pre |->
                         IF q \in DOMAIN f THEN f[q] ELSE DirNode]]

\* std::fs::write(p, c): the parent must be a directory and p no directory.
WriteFile(f, p, c) ==
    IF Len(p) > MaxPathLen \/ p = <<>> \/ ~IsDir(f, Parent(p)) \/ IsDir(f, p)
    THEN [ok |-> FALSE, fs |-> f]
    ELSE [ok |-> TRUE,
          fs |-> [q \in DOMAIN f \cup {p} |->
                     IF q = p THEN FileNode(c) ELSE f[q]]]

\* std::fs::read_to_string(p): fails when p is no file or no valid UTF-8.
ReadToString(f, p) ==
    IF IsFile(f, p) /\ BadUtf8 \notin Range(f[p].content)
    THEN [ok |-> TRUE, content |-> f[p].content]
    ELSE [ok |-> FALSE, content |-> <<>>]

\* std::fs::copy(from, to).
CopyFile(f, from, to) ==
    IF ~IsFile(f, from) THEN [ok |-> FALSE, fs |-> f]
    ELSE WriteFile(f, to, f[from].content)

\* The names a read of directory dir returns.  The order of a directory
\* read is unspecified (WalkDir is used without sort_by): a walk lists
\* every directory in one enumeration order or in its reverse.
ListDir(f, dir, rev) ==
    LET names == {q[Len(q)] : q \in {r \in DOMAIN f :
                                       Len(r) = Len(dir) + 1 /\ IsPrefix(dir, r)}}
        s == SeqOfSet(names)
    IN  IF rev THEN Reverse(s) ELSE s

(************************ TalonManifest::parse *****************************)

\* Position of the first "---" in s, 0 when there is none.
FirstDelim(s) ==
    IF \E i \in 1..Len(s) : s[i] = Delim
    THEN CHOOSE i \in 1..Len(s) :
             s[i] = Delim /\ \A j \in 1..(i - 1) : s[j] # Delim
    ELSE 0

\* str::splitn(n, "---"): at most n parts, the last one holding the rest.
RECURSIVE SplitNOn(_, _)
SplitNOn(s, n) ==
    LET d == FirstDelim(s)
    IN  IF n <= 1 \/ d = 0 THEN <<s>>
        ELSE <<SubSeq(s, 1, d - 1)>> \o SplitNOn(SubSeq(s, d + 1, Len(s)), n - 1)

\* str::trim: drops leading and trailing blank text.
RECURSIVE Trim(_)
Trim(s) ==
    IF s = <<>> THEN s
    ELSE IF Head(s) = Blank THEN Trim(Tail(s))
    ELSE IF s[Len(s)] = Blank THEN Trim(SubSeq(s, 1, Len(s) - 1))
    ELSE s

RequiredFields == {"name", "version", "description"}

OptionalFields == {"author", "license", "tags"}

NoManifest ==
    [name |-> <<>>, version |-> "", description |-> "",
     author |-> <<>>, license |-> <<>>, tags |-> <<>>, commands |-> <<>>]

\* The items of the `commands` list, in document order: a "command" token
\* <<name, description>> opens a command with an `args` list, and each
\* "arg" token <<name, type, required>> or <<name, type, required,
\* description>> after it is one item of that list.
CommandKeys == {"command", "arg"}

\* CommandArg: description is <<>> (None) or <<x>> (Some(x)).
CommandArg(t) ==
    [name |-> t.v[1], type |-> t.v[2], required |-> (t.v[3] = "true"),
     description |-> SubSeq(t.v, 4, Len(t.v))]

\* The number of "arg" tokens items starts with.
RECURSIVE LeadingArgs(_)
LeadingArgs(items) ==
    IF items = <<>> \/ Head(items).k # "arg" THEN 0
    ELSE 1 + LeadingArgs(Tail(items))

\* Vec<TalonCommand> from the items, which start with a "command" token.
RECURSIVE Commands(_)
Commands(items) ==
    IF items = <<>> THEN <<>>
    ELSE LET rest == Tail(items)
             n == LeadingArgs(rest)
         IN  << [name |-> Head(items).v[1],
                 description |-> Head(items).v[2],
                 args |-> [i \in 1..n |-> CommandArg(rest[i])]] >>
             \o Commands(SubSeq(rest, n + 1, Len(rest)))

\* The fields of TalonCommand and CommandArg that have no default are
\* present and `required` is a bool.
WellFormedItems(items) ==
    /\ items # <<>> => Head(items).k = "command"
    /\ \A i \in 1..Len(items) :
           IF items[i].k = "command" THEN Len(items[i].v) = 2
           ELSE /\ Len(items[i].v) \in {3, 4}
                /\ items[i].v[3] \in {"true", "false"}

\* serde_yaml::from_str::<TalonManifest>: the block must be a mapping, no
\* key may occur twice and the fields without a default must be present.
\* Option fields are <<>> (None) or <<x>> (Some(x)).
FromYaml(front) ==
    LET all == SelectSeq(front, LAMBDA t : t # Blank)
        toks == SelectSeq(all, LAMBDA t : t.k \notin CommandKeys)
        items == SelectSeq(all, LAMBDA t : t.k \in CommandKeys)
        keys == {toks[i].k : i \in 1..Len(toks)}
        Val(k) == (CHOOSE i \in 1..Len(toks) : toks[i].k = k)
        Get(k) == IF k \in keys THEN toks[Val(k)].v ELSE <<>>
    IN  IF \/ ~(keys \subseteq RequiredFields \cup OptionalFields)
           \/ \E i, j \in 1..Len(toks) : i # j /\ toks[i].k = toks[j].k
           \/ ~(RequiredFields \subseteq keys)
           \/ ~WellFormedItems(items)
        THEN [ok |-> FALSE, err |-> "InvalidFrontmatter", manifest |-> NoManifest]
        ELSE [ok |-> TRUE, err |-> "",
              manifest |-> [name |-> Get("name"),
                            version |-> Get("version")[1],
                            description |-> Get("description")[1],
                            author |-> Get("author"),
                            license |-> Get("license"),
                            tags |-> Get("tags"),
                            commands |-> Commands(items)]]

\* A parse that does not trim the frontmatter.
ManifestParseNoTrim(content) ==
    LET sections == SplitNOn(content, SplitN)
        front == IF Len(sections) >= 2 THEN sections[2] ELSE <<>>
    IN  IF front = <<>>
        THEN [ok |-> FALSE, err |-> "MissingFrontmatter", manifest |-> NoManifest]
        ELSE FromYaml(front)

ManifestParse(content) ==
    LET sections == SplitNOn(content, SplitN)
        front == IF Len(sections) >= 2 THEN Trim(sections[2]) ELSE <<>>
    IN  IF front = <<>>
        THEN [ok |-> FALSE, err |-> "MissingFrontmatter", manifest |-> NoManifest]
        ELSE FromYaml(front)

(*************************** TalonIndex ************************************)

\* The TalonEntry discover_talons and add_talon build from a manifest.
EntryOf(m, path) ==
    [name |-> m.name, version |-> m.version, description |-> m.description,
     author |-> m.author, license |-> m.license, path |-> path, tags |-> m.tags]

TalonInfo(m, path) == [manifest |-> m, path |-> path, installed |-> TRUE]

EmptyTalons == [n \in {} |-> 0]

EmptyIndex == [talons |-> EmptyTalons, version |-> DefaultVersion]

\* HashMap::insert / HashMap::remove.
MapInsert(m, k, v) == [x \in DOMAIN m \cup {k} |-> IF x = k THEN v ELSE m[x]]

MapRemove(m, k) == [x \in DOMAIN m \ {k} |-> m[x]]

\* serde_json::to_string_pretty(&TalonIndex): the talons map, one object
\* per key, then the version string.
EntryJson(k, e) ==
    << Tok("key", k), Tok("name", e.name), Tok("version", <<e.version>>),
       Tok("description", <<e.description>>), Tok("author", e.author),
       Tok("license", e.license), Tok("path", e.path), Tok("tags", e.tags) >>

RECURSIVE EntriesJson(_, _)
EntriesJson(talons, ks) ==
    IF ks = <<>> THEN <<>>
    ELSE EntryJson(Head(ks), talons[Head(ks)]) \o EntriesJson(talons, Tail(ks))

ToJson(ix) ==
    EntriesJson(ix.talons, SeqOfSet(DOMAIN ix.talons))
        \o <<Tok("version", <<ix.version>>)>>

EntryKeys == <<"key", "name", "version", "description", "author", "license",
               "path", "tags">>

\* serde_json::from_str::<TalonIndex>.
FromJson(doc) ==
    LET n == (Len(doc) - 1) \div Len(EntryKeys)
        At(i, j) == doc[(i - 1) * Len(EntryKeys) + j]
        wellFormed ==
            /\ Len(doc) >= 1
            /\ Len(doc) = n * Len(EntryKeys) + 1
            /\ doc[Len(doc)].k = "version" /\ Len(doc[Len(doc)].v) = 1
            /\ \A i \in 1..n : \A j \in 1..Len(EntryKeys) : At(i, j).k = EntryKeys[j]
            /\ \A i \in 1..n : Len(At(i, 3).v) = 1 /\ Len(At(i, 4).v) = 1
        keys == {At(i, 1).v : i \in 1..n}
        \* a key that occurs twice keeps its last object
        Pos(k) == CHOOSE i \in 1..n :
                      At(i, 1).v = k /\ \A j \in (i + 1)..n : At(j, 1).v # k
    IN  IF ~wellFormed THEN [ok |-> FALSE, index |-> EmptyIndex]
        ELSE [ok |-> TRUE,
              index |-> [talons |-> [k \in keys |->
                                       [name |-> At(Pos(k), 2).v,
                                        version |-> At(Pos(k), 3).v[1],
                                        description |-> At(Pos(k), 4).v[1],
                                        author |-> At(Pos(k), 5).v,
                                        license |-> At(Pos(k), 6).v,
                                        path |-> At(Pos(k), 7).v,
                                        tags |-> At(Pos(k), 8).v]],
                         version |-> doc[Len(doc)].v[1]]]

\* TalonRegistry::load_index(talons_dir).
LoadIndex(f, dir) ==
    LET p == dir \o <<IndexName>>
        r == ReadToString(f, p)
    IN  IF ~Exists(f, p) THEN [ok |-> TRUE, index |-> EmptyIndex]
        ELSE IF ~r.ok THEN [ok |-> FALSE, index |-> EmptyIndex]
        ELSE FromJson(r.content)

\* save_index that writes the document only when there is none yet.
SaveIndexOnce(f, dir, ix) ==
    IF Exists(f, dir \o <<IndexName>>) THEN [ok |-> TRUE, fs |-> f]
    ELSE WriteFile(f, dir \o <<IndexName>>, ToJson(ix))

\* TalonRegistry::save_index: the document is rewritten in full.
SaveIndex(f, dir, ix) == WriteFile(f, dir \o <<IndexName>>, ToJson(ix))

(*************************** directory walks *******************************)

\* WalkDir::new(p).max_depth(depth).into_iter().filter_map(|e| e.ok()) over
\* a tree that does not change during the walk: the paths it yields, a
\* directory before its contents.  A root that does not exist yields only
\* an error, which the filter drops.
RECURSIVE Walk(_, _, _, _), WalkList(_, _, _, _, _)
Walk(f, p, depth, rev) ==
    <<p>> \o (IF IsDir(f, p) /\ depth > 0
              THEN WalkList(f, p, ListDir(f, p, rev), depth - 1, rev)
              ELSE <<>>)

WalkList(f, p, names, depth, rev) ==
    IF names = <<>> THEN <<>>
    ELSE Walk(f, p \o <<Head(names)>>, depth, rev)
             \o WalkList(f, p, Tail(names), depth, rev)

WalkDir(f, root, depth, rev) ==
    IF Exists(f, root) THEN Walk(f, root, depth, rev) ELSE <<>>

\* A loop body that records a manifest whether or not it parses.
DiscoverEntryNoSkip(f, path, acc) ==
    IF path # <<>> /\ IsFile(f, path) /\ path[Len(path)] = ManifestName
    THEN LET talon_path == Parent(path)
             r == ReadToString(f, talon_path \o <<ManifestName>>)
             m == ManifestParse(r.content)
         IN  [talons |-> MapInsert(acc.talons, m.manifest.name,
                                   EntryOf(m.manifest, talon_path)),
              discovered |-> Append(acc.discovered,
                                    TalonInfo(m.manifest, talon_path))]
    ELSE acc

\* The body of the loop of discover_talons for one entry of the walk.
DiscoverEntry(f, path, acc) ==
    IF path # <<>> /\ IsFile(f, path) /\ path[Len(path)] = ManifestName
    THEN LET talon_path == Parent(path)
             r == ReadToString(f, talon_path \o <<ManifestName>>)
             m == ManifestParse(r.content)
         IN  IF r.ok /\ m.ok
             THEN [talons |-> MapInsert(acc.talons, m.manifest.name,
                                        EntryOf(m.manifest, talon_path)),
                   discovered |-> Append(acc.discovered,
                                         TalonInfo(m.manifest, talon_path))]
             ELSE acc
    ELSE acc

RECURSIVE DiscoverLoop(_, _, _)
DiscoverLoop(f, paths, acc) ==
    IF paths = <<>> THEN acc
    ELSE DiscoverLoop(f, Tail(paths), DiscoverEntry(f, Head(paths), acc))

\* copy_dir_recursive(source, destination).  The walk reads a directory
\* after the loop body has handled the directory's own entry, so what the
\* body has created in it by then is listed too.
\* nofault is FALSE when the environment makes the first fs::copy fail.
CopyBody(st, source, destination, p, nofault) ==
    LET relative == SubSeq(p, Len(source) + 1, Len(p))
        target_path == destination \o relative
    IN  IF relative = <<>> THEN st
        ELSE IF IsDir(st.fs, p) THEN CreateDirAll(st.fs, target_path)
        ELSE IF IsFile(st.fs, p)
             THEN LET d == CreateDirAll(st.fs, Parent(target_path))
                  IN  IF ~d.ok \/ ~nofault THEN [ok |-> FALSE, fs |-> d.fs]
                      ELSE CopyFile(d.fs, p, target_path)
        ELSE st

RECURSIVE CopyWalk(_, _, _, _, _, _), CopyWalkList(_, _, _, _, _, _, _)
CopyWalk(st, source, destination, p, nofault, rev) ==
    IF ~st.ok THEN st
    ELSE LET isDir == IsDir(st.fs, p)
             st1 == CopyBody(st, source, destination, p, nofault)
         IN  IF st1.ok /\ isDir
             THEN CopyWalkList(st1, source, destination, p,
                               ListDir(st1.fs, p, rev), nofault, rev)
             ELSE st1

CopyWalkList(st, source, destination, p, names, nofault, rev) ==
    IF names = <<>> \/ ~st.ok THEN st
    ELSE CopyWalkList(
             CopyWalk(st, source, destination, p \o <<Head(names)>>, nofault, rev),
             source, destination, p, Tail(names), nofault, rev)

CopyDirRecursive(f, source, destination, nofault, rev) ==
    IF Exists(f, source)
    THEN CopyWalk([ok |-> TRUE, fs |-> f], source, destination, source, nofault, rev)
    ELSE [ok |-> TRUE, fs |-> f]

(*************************** TalonRegistry *********************************)

\* The file system calls the environment can make fail (permission denied,
\* read-only or full device); a failed call changes nothing on disk.
Faults == {"none", "remove_dir_all", "create_dir_all", "copy", "write"}

Result(ok, name, discovered, f, ix) ==
    [ok |-> ok, name |-> name, discovered |-> discovered, fs |-> f, index |-> ix]

\* TalonRegistry::from_dir(dir), as the index the new registry holds.
FromDir(f, dir) ==
    LET c == IF Exists(f, dir) THEN [ok |-> TRUE, fs |-> f] ELSE CreateDirAll(f, dir)
        l == LoadIndex(c.fs, dir)
    IN  Result(c.ok /\ l.ok, <<>>, <<>>, c.fs, l.index)

\* discover_talons with a walk one level shallower (max_depth(1)).
DiscoverTalonsShallow(f, ix, fault, rev) ==
    LET acc == DiscoverLoop(f, WalkDir(f, Base, MaxDepth - 1, rev),
                            [talons |-> ix.talons, discovered |-> <<>>])
        ix1 == [ix EXCEPT !.talons = acc.talons]
        sv  == SaveIndex(f, Base, ix1)
    IN  IF ~sv.ok \/ fault = "write"
        THEN Result(FALSE, <<>>, <<>>, f, ix1)
        ELSE Result(TRUE, <<>>, acc.discovered, sv.fs, ix1)

\* TalonRegistry::discover_talons.
DiscoverTalons(f, ix, fault, rev) ==
    LET acc == DiscoverLoop(f, WalkDir(f, Base, MaxDepth, rev),
                            [talons |-> ix.talons, discovered |-> <<>>])
        ix1 == [ix EXCEPT !.talons = acc.talons]
        sv  == SaveIndex(f, Base, ix1)
    IN  IF ~sv.ok \/ fault = "write"
        THEN Result(FALSE, <<>>, <<>>, f, ix1)
        ELSE Result(TRUE, <<>>, acc.discovered, sv.fs, ix1)

\* TalonRegistry::get_talon.
GetTalon(ix, name) ==
    IF name \in DOMAIN ix.talons THEN <<ix.talons[name]>> ELSE <<>>

(************************ TalonRegistry::search_talons *********************)

\* search_talons looks at the characters of strings.  Where it is applied,
\* a string is the sequence of its characters, each a one-character string.
UpperCase == <<"A", "B">>

LowerCase == <<"a", "b">>

\* char::to_lowercase over the letters above.
LowerChar(c) ==
    IF \E i \in 1..Len(UpperCase) : UpperCase[i] = c
    THEN LowerCase[CHOOSE i \in 1..Len(UpperCase) : UpperCase[i] = c]
    ELSE c

\* str::to_lowercase.
ToLowercase(s) == [i \in 1..Len(s) |-> LowerChar(s[i])]

\* str::contains: the pattern starts at the head or occurs in the tail.
RECURSIVE Contains(_, _)
Contains(hay, needle) ==
    \/ IsPrefix(needle, hay)
    \/ hay # <<>> /\ Contains(Tail(hay), needle)

\* HashMap::values().collect(): the entries in the map's iteration order.
Values(talons) ==
    LET ks == SeqOfSet(DOMAIN talons) IN [i \in 1..Len(ks) |-> talons[ks[i]]]

\* search_talons that compares with the query as typed.
SearchTalonsRawQuery(ix, query) ==
    SelectSeq(Values(ix.talons),
              LAMBDA t : \/ Contains(ToLowercase(t.name), query)
                         \/ Contains(ToLowercase(t.description), query)
                         \/ \E i \in 1..Len(t.tags) :
                                Contains(ToLowercase(t.tags[i]), query))

\* TalonRegistry::search_talons.
SearchTalons(ix, query) ==
    LET query_lower == ToLowercase(query)
    IN  SelectSeq(Values(ix.talons),
                  LAMBDA t : \/ Contains(ToLowercase(t.name), query_lower)
                             \/ Contains(ToLowercase(t.description), query_lower)
                             \/ \E i \in 1..Len(t.tags) :
                                    Contains(ToLowercase(t.tags[i]), query_lower))

\* TalonRegistry::add_talon.
AddTalon(f, ix, path, fault, rev) ==
    LET talon_md == path \o <<ManifestName>>
        r    == ReadToString(f, talon_md)
        m    == ManifestParse(r.content)
        name == m.manifest.name
        dest == PathJoin(Base, name)
        f1   == IF Exists(f, dest) THEN RemoveDirAll(f, dest) ELSE f
        c    == CreateDirAll(f1, dest)
        cp   == CopyDirRecursive(c.fs, path, dest, fault # "copy", rev)
        ix1  == [ix EXCEPT !.talons =
                    MapInsert(ix.talons, name, EntryOf(m.manifest, dest))]
        sv   == SaveIndex(cp.fs, Base, ix1)
    IN  IF ~Exists(f, talon_md) \/ ~r.ok \/ ~m.ok
        THEN Result(FALSE, <<>>, <<>>, f, ix)
        ELSE IF Exists(f, dest) /\ (fault = "remove_dir_all" \/ ~IsDir(f, dest))
        THEN Result(FALSE, <<>>, <<>>, f, ix)
        ELSE IF ~c.ok \/ fault = "create_dir_all"
        THEN Result(FALSE, <<>>, <<>>, f1, ix)
        ELSE IF ~cp.ok
        THEN Result(FALSE, <<>>, <<>>, cp.fs, ix)
        ELSE IF ~sv.ok \/ fault = "write"
        THEN Result(FALSE, <<>>, <<>>, cp.fs, ix1)
        ELSE Result(TRUE, name, <<>>, sv.fs, ix1)

\* remove_talon that drops the entry and leaves its directory on disk.
RemoveTalonLeavesDir(f, ix, name, fault) ==
    IF name \in DOMAIN ix.talons
    THEN LET ix1 == [ix EXCEPT !.talons = MapRemove(ix.talons, name)]
             sv  == SaveIndex(f, Base, ix1)
         IN  IF ~sv.ok \/ fault = "write"
             THEN Result(FALSE, <<>>, <<>>, f, ix1)
             ELSE Result(TRUE, <<>>, <<>>, sv.fs, ix1)
    ELSE Result(TRUE, <<>>, <<>>, f, ix)

\* remove_talon that saves the index also when the name is not in it.
RemoveTalonAlwaysSaves(f, ix, name, fault) ==
    LET ix1 == [ix EXCEPT !.talons = MapRemove(ix.talons, name)]
        p   == IF name \in DOMAIN ix.talons THEN ix.talons[name].path ELSE <<>>
        rm  == name \in DOMAIN ix.talons /\ Exists(f, p)
        f1  == IF rm THEN RemoveDirAll(f, p) ELSE f
        sv  == SaveIndex(f1, Base, ix1)
    IN  IF rm /\ (fault = "remove_dir_all" \/ ~IsDir(f, p))
        THEN Result(FALSE, <<>>, <<>>, f, ix1)
        ELSE IF ~sv.ok \/ fault = "write"
        THEN Result(FALSE, <<>>, <<>>, f1, ix1)
        ELSE Result(TRUE, <<>>, <<>>, sv.fs, ix1)

\* TalonRegistry::remove_talon.
RemoveTalon(f, ix, name, fault) ==
    IF name \in DOMAIN ix.talons
    THEN LET entry == ix.talons[name]
             ix1   == [ix EXCEPT !.talons = MapRemove(ix.talons, name)]
             f1    == IF Exists(f, entry.path) THEN RemoveDirAll(f, entry.path) ELSE f
             sv    == SaveIndex(f1, Base, ix1)
         IN  IF Exists(f, entry.path)
                /\ (fault = "remove_dir_all" \/ ~IsDir(f, entry.path))
             THEN Result(FALSE, <<>>, <<>>, f, ix1)
             ELSE IF ~sv.ok \/ fault = "write"
             THEN Result(FALSE, <<>>, <<>>, f1, ix1)
             ELSE Result(TRUE, <<>>, <<>>, sv.fs, ix1)
    ELSE Result(TRUE, <<>>, <<>>, f, ix)

(****************************** TalonLoader ********************************)

Loaded(ok, err, info) == [ok |-> ok, err |-> err, info |-> info]

NoInfo == [manifest |-> NoManifest, path |-> <<>>, installed |-> FALSE]

\* A load_talon that answers from the entry's summary fields.
LoadTalonFromIndex(f, ix, name) ==
    LET entry == GetTalon(ix, name)
    IN  IF entry = <<>> THEN Loaded(FALSE, "NotFound", NoInfo)
        ELSE Loaded(TRUE, "",
                    TalonInfo([name |-> entry[1].name,
                               version |-> entry[1].version,
                               description |-> entry[1].description,
                               author |-> entry[1].author,
                               license |-> entry[1].license,
                               tags |-> entry[1].tags,
                               commands |-> <<>>], entry[1].path))

\* TalonLoader::load_talon.
LoadTalon(f, ix, name) ==
    LET entry == GetTalon(ix, name)
    IN  IF entry = <<>> THEN Loaded(FALSE, "NotFound", NoInfo)
        ELSE LET rd == ReadToString(f, PathJoin(entry[1].path, <<ManifestName>>))
                 pr == ManifestParse(rd.content)
             IN  IF ~rd.ok THEN Loaded(FALSE, "Io", NoInfo)
                 ELSE IF ~pr.ok THEN Loaded(FALSE, pr.err, NoInfo)
                 ELSE Loaded(TRUE, "", TalonInfo(pr.manifest, entry[1].path))

\* format!("{}.{}", a, b): a is a name (a sequence of pieces), b a string.
Dotted(a, b) == a \o <<".">> \o <<b>>

CapabilityArg(a) == [name |-> a.name, type |-> a.type, required |-> a.required]

\* A capability named after the manifest's command alone.
TalonCapabilityBare(name, cmd) ==
    [name |-> <<cmd.name>>,
     description |-> cmd.description,
     args |-> [i \in 1..Len(cmd.args) |-> CapabilityArg(cmd.args[i])]]

\* The TalonCapability get_capabilities pushes for cmd.
TalonCapability(name, cmd) ==
    [name |-> Dotted(name, cmd.name),
     description |-> cmd.description,
     args |-> [i \in 1..Len(cmd.args) |-> CapabilityArg(cmd.args[i])]]

\* TalonLoader::get_capabilities.
GetCapabilities(f, ix, name) ==
    LET talon == LoadTalon(f, ix, name)
        cmds == talon.info.manifest.commands
    IN  IF ~talon.ok THEN [ok |-> FALSE, err |-> talon.err, caps |-> <<>>]
        ELSE [ok |-> TRUE, err |-> "",
              caps |-> [i \in 1..Len(cmds) |-> TalonCapability(name, cmds[i])]]

\* A piece of the prompt: a format string and what fills its places.
Line(fmt, args) == [fmt |-> fmt, args |-> args]

Preamble == Line("Available Talons:\n\n", <<>>)

\* A section that has a command list for every package.
TalonSectionAlwaysCommands(talon) ==
    LET m == talon.manifest
    IN  << Line("## {} (v{})\n", <<m.name, <<m.version>>>>),
           Line("{}\n\n", <<<<m.description>>>>), Line("Commands:\n", <<>>) >>
        \o [i \in 1..Len(m.commands) |->
               Line("- {}: {}\n", << <<m.commands[i].name>>,
                                     <<m.commands[i].description>> >>)]
        \o <<Line("\n", <<>>)>>

\* What generate_system_prompt appends for a loaded talon.
TalonSection(talon) ==
    LET m == talon.manifest
    IN  << Line("## {} (v{})\n", <<m.name, <<m.version>>>>),
           Line("{}\n\n", <<<<m.description>>>>) >>
        \o (IF m.commands # <<>>
            THEN <<Line("Commands:\n", <<>>)>>
                 \o [i \in 1..Len(m.commands) |->
                        Line("- {}: {}\n", << <<m.commands[i].name>>,
                                              <<m.commands[i].description>> >>)]
                 \o <<Line("\n", <<>>)>>
            ELSE <<>>)

\* The loop of generate_system_prompt over names.
RECURSIVE PromptLoop(_, _, _)
PromptLoop(f, ix, names) ==
    IF names = <<>> THEN <<>>
    ELSE LET talon == LoadTalon(f, ix, Head(names))
         IN  (IF talon.ok THEN TalonSection(talon.info) ELSE <<>>)
             \o PromptLoop(f, ix, Tail(names))

\* TalonLoader::generate_system_prompt.
GenerateSystemPrompt(f, ix, names) ==
    [ok |-> TRUE, prompt |-> <<Preamble>> \o PromptLoop(f, ix, names)]

(*********************** constructing a registry ***************************)

\* PathBuf::from("./talons"), the directory of the fallback in Default.
FallbackDir == <<".", "talons">>

\* TalonIndex::default(): an empty map and String::default().
DerivedDefaultIndex == [talons |-> EmptyTalons, version |-> ""]

Registry(dir, ix) == [talons_dir |-> dir, index |-> ix]

Constructed(ok, f, reg) == [ok |-> ok, fs |-> f, registry |-> reg]

\* TalonRegistry::from_dir(dir), as the registry it returns.
RegistryFromDir(f, dir) ==
    LET r == FromDir(f, dir)
    IN  Constructed(r.ok, r.fs, Registry(dir, r.index))

\* TalonRegistry::new(): data is what dirs::data_dir() returns, <<>> for
\* None and <<d>> for Some(d).
RegistryNew(f, data) ==
    IF data = <<>>
    THEN Constructed(FALSE, f, Registry(<<>>, EmptyIndex))
    ELSE RegistryFromDir(f, data[1] \o <<"femtoclaw", "talons">>)

\* impl Default for TalonRegistry: Self::new().unwrap_or_else(..).
RegistryDefault(f, data) ==
    LET r == RegistryNew(f, data)
    IN  IF r.ok THEN r
        ELSE Constructed(TRUE, r.fs, Registry(FallbackDir, DerivedDefaultIndex))

(************************* initial file systems ****************************)

Manifest(name, version) ==
    << Delim, Tok("name", name), Tok("version", <<version>>),
       Tok("description", <<"d">>), Delim, FreeText >>

\* A manifest with the optional fields set.
FullManifest(name, version) ==
    << Blank, Delim, Blank, Tok("name", name), Tok("version", <<version>>),
       Tok("description", <<"d">>), Tok("author", <<"x">>),
       Tok("tags", <<"web", "cli">>), Blank, Delim, FreeText, Delim >>

NoFrontmatter == <<FreeText>>

Unreadable == <<BadUtf8>>

Foo == <<"foo">>

Bar == <<"bar">>

EmptyName == <<>>

AbsName == <<"/", "ext", "s2">>

Ghost == <<"ghost">>

\* A file system from a set of <<path, content>> files: every ancestor of
\* a file is a directory.
MkFs(files, dirs) ==
    LET fpaths == {x[1] : x \in files}
        dpaths == UNION {{SubSeq(p, 1, i) : i \in 0..(Len(p) - 1)} : p \in fpaths}
                      \cup UNION {{SubSeq(p, 1, i) : i \in 0..Len(p)} : p \in dirs}
    IN  [p \in fpaths \cup dpaths |->
            IF p \in fpaths
            THEN FileNode((CHOOSE x \in files : x[1] = p)[2])
            ELSE DirNode]

\* The package directories outside the bound directory that add is given.
Sources ==
    { <<<<"ext", "s1", ManifestName>>, Manifest(Foo, "1")>>,
      <<<<"ext", "s1", "extra">>, <<FreeText>>>>,
      <<<<"ext", "s2", ManifestName>>, FullManifest(Foo, "2")>>,
      <<<<"ext", "s3", ManifestName>>, Manifest(EmptyName, "1")>>,
      <<<<"ext", "s4", ManifestName>>, Manifest(AbsName, "1")>> }

\* An empty bound directory.
Layout0 == MkFs(Sources, {Base})

\* Two packages that declare the same name, and one that does not parse.
Layout1 ==
    MkFs(Sources \cup
         { <<Base \o <<"foo", ManifestName>>, Manifest(Foo, "1")>>,
           <<Base \o <<"foo", "extra">>, <<FreeText>>>>,
           <<Base \o <<"b", ManifestName>>, Manifest(Foo, "2")>>,
           <<Base \o <<"c", ManifestName>>, NoFrontmatter>> }, {Base})

\* A manifest in the bound directory itself, one in a directory below it,
\* one two directories below it, and one that cannot be read.
Layout2 ==
    MkFs(Sources \cup
         { <<Base \o <<ManifestName>>, Manifest(Bar, "1")>>,
           <<Base \o <<"d", ManifestName>>, FullManifest(<<"dee">>, "1")>>,
           <<Base \o <<"d", "e", ManifestName>>, Manifest(<<"deep">>, "1")>>,
           <<Base \o <<"u", ManifestName>>, Unreadable>> }, {Base})

Layouts == {Layout0, Layout1, Layout2}

\* Longest path add is called with.
MaxArgLen == 2

AddArgs(f) == {p \in DOMAIN f : IsDir(f, p) /\ Len(p) <= MaxArgLen}

NameArgs(ix) == DOMAIN ix.talons \cup {Foo, Ghost}

(****************************** behaviour **********************************)

NoPrev == [op |-> "none", ok |-> TRUE, ret |-> <<>>, discovered |-> <<>>]

\* What is remembered of an operation: its arguments, the fault the
\* environment injected, its result, the state it started from and the
\* operation before it.
Last(op, path, name, fault, res) ==
    [op |-> op, path |-> path, name |-> name, fault |-> fault,
     ok |-> res.ok, ret |-> res.name, discovered |-> res.discovered,
     preFs |-> fs, preIndex |-> index,
     prev |-> [op |-> last.op, ok |-> last.ok, ret |-> last.ret,
               discovered |-> last.discovered]]

\* The state after TalonRegistry::from_dir(Base) on a directory without an
\* index document.
Init ==
    /\ fs \in Layouts
    /\ index = FromDir(fs, Base).index
    /\ persisted = index
    /\ last = [op |-> "from_dir", path |-> <<>>, name |-> <<>>, fault |-> "none",
               ok |-> TRUE, ret |-> <<>>, discovered |-> <<>>,
               preFs |-> fs, preIndex |-> index, prev |-> NoPrev]
    /\ nops = 0

\* One call: saved tells whether the call loaded or wrote the document.
Apply(op, path, name, fault, res, saved) ==
    /\ nops < MaxOps
    /\ nops' = nops + 1
    /\ fs' = res.fs
    /\ index' = res.index
    /\ persisted' = IF saved THEN res.index ELSE persisted
    /\ last' = Last(op, path, name, fault, res)

\* A new registry is constructed on the bound directory; when construction
\* fails the caller keeps the registry it had.
Construct ==
    LET res == FromDir(fs, Base)
    IN  Apply("from_dir", <<>>, <<>>, "none",
              IF res.ok THEN res ELSE [res EXCEPT !.index = index], res.ok)

Discover ==
    \E fault \in {"none", "write"}, rev \in BOOLEAN :
        LET res == DiscoverTalons(fs, index, fault, rev)
        IN  Apply("discover", <<>>, <<>>, fault, res, res.ok)

Add ==
    \E path \in AddArgs(fs), fault \in Faults, rev \in BOOLEAN :
        LET res == AddTalon(fs, index, path, fault, rev)
        IN  Apply("add", path, <<>>, fault, res, res.ok)

Remove ==
    \E name \in NameArgs(index), fault \in {"none", "remove_dir_all", "write"} :
        LET res == RemoveTalon(fs, index, name, fault)
        IN  Apply("remove", <<>>, name, fault, res,
                  res.ok /\ name \in DOMAIN index.talons)

Next == Construct \/ Discover \/ Add \/ Remove

Spec == Init /\ [][Next]_vars

(************************* search specification ****************************)

\* Longest query search is called with, in characters.
MaxQueryLen == 2

Letters == Range(UpperCase) \cup Range(LowerCase)

Texts(n) == UNION {[1..k -> Letters] : k \in 0..n}

SearchNames == {<<"A", "b">>, <<"b", "a">>}

SearchDescriptions == {<<>>, <<"a", "B", "a">>}

SearchTags == {<<>>, <<<<"B">>>>, <<<<"a">>, <<"b", "B">>>>}

\* The indexes search is applied to: entries under some of the names, each
\* with one of the descriptions and one of the tag lists.
SearchIndexes ==
    UNION {
        { [talons |-> [n \in S |->
                          [name |-> n, version |-> "1",
                           description |-> c[n][1], author |-> <<>>,
                           license |-> <<>>, path |-> Base \o <<"p">>,
                           tags |-> c[n][2]]],
           version |-> DefaultVersion] :
          c \in [S -> SearchDescriptions \X SearchTags] } :
        S \in SUBSET SearchNames }

SearchInit ==
    /\ fs = Layout0
    /\ index \in SearchIndexes
    /\ persisted = index
    /\ last = [op |-> "none", query |-> <<>>, result |-> <<>>, preIndex |-> index]
    /\ nops = 0

Search ==
    \E query \in Texts(MaxQueryLen) :
        /\ last' = [op |-> "search", query |-> query,
                    result |-> SearchTalons(index, query), preIndex |-> index]
        /\ UNCHANGED <<fs, index, persisted, nops>>

SearchSpec == SearchInit /\ [][Search]_vars

(********************** construction specification *************************)

\* The platform data directory.
DataDir == <<"data">>

DataTalons == DataDir \o <<"femtoclaw", "talons">>

\* What can be at the place of an index document: nothing (the directory
\* missing or empty), a document written by save_index, text that is no
\* index document, bytes that are no text.
SavedDoc ==
    ToJson([talons |-> (Foo :> EntryOf(ManifestParse(Manifest(Foo, "1")).manifest,
                                       Base \o Foo)),
            version |-> DefaultVersion])

DocStates == {"nodir", "nodoc", "saved", "malformed", "unreadable"}

DocFiles(dir, st) ==
    IF st = "saved" THEN {<<dir \o <<IndexName>>, SavedDoc>>}
    ELSE IF st = "malformed" THEN {<<dir \o <<IndexName>>, <<FreeText>>>>}
    ELSE IF st = "unreadable" THEN {<<dir \o <<IndexName>>, Unreadable>>}
    ELSE {}

DocDirs(dir, st) == IF st = "nodoc" THEN {dir} ELSE {}

ConstructLayouts ==
    { MkFs(DocFiles(Base, a) \cup DocFiles(DataTalons, b),
           DocDirs(Base, a) \cup DocDirs(DataTalons, b)) : a, b \in DocStates }

\* last.dir is the directory whose index document the call looks for.
ConstructInit ==
    /\ fs \in ConstructLayouts
    /\ index = EmptyIndex
    /\ persisted = EmptyIndex
    /\ last = [op |-> "none", dir |-> <<>>, ok |-> TRUE,
               registry |-> Registry(<<>>, EmptyIndex), preFs |-> fs]
    /\ nops = 0

Built(op, dir, res) ==
    /\ nops < MaxOps
    /\ nops' = nops + 1
    /\ fs' = res.fs
    /\ index' = IF res.ok THEN res.registry.index ELSE index
    /\ persisted' = IF res.ok THEN res.registry.index ELSE persisted
    /\ last' = [op |-> op, dir |-> dir, ok |-> res.ok,
                registry |-> res.registry, preFs |-> fs]

CallFromDir ==
    \E dir \in {Base, DataTalons} : Built("from_dir", dir, RegistryFromDir(fs, dir))

CallNew ==
    \E data \in {<<>>, <<DataDir>>} :
        Built("new", IF data = <<>> THEN <<>> ELSE DataTalons, RegistryNew(fs, data))

CallDefault ==
    \E data \in {<<>>, <<DataDir>>} :
        Built("default", IF data = <<>> THEN <<>> ELSE DataTalons,
              RegistryDefault(fs, data))

ConstructNext == CallFromDir \/ CallNew \/ CallDefault

ConstructSpec == ConstructInit /\ [][ConstructNext]_vars

(************************* loader specification ****************************)

\* A manifest that declares two commands, the first with two arguments.
CmdManifest(name, version) ==
    << Delim, Tok("name", name), Tok("version", <<version>>),
       Tok("description", <<"d">>),
       Tok("command", <<"run", "runs it">>),
       Tok("arg", <<"target", "string", "true", "where to run">>),
       Tok("arg", <<"force", "bool", "false">>),
       Tok("command", <<"stop", "stops it">>), Delim, FreeText >>

\* A manifest whose command lacks its description.
BadCommand ==
    << Delim, Tok("name", Foo), Tok("version", <<"1">>),
       Tok("description", <<"d">>), Tok("command", <<"run">>), Delim >>

LoaderLayout ==
    MkFs({ <<Base \o <<"foo", ManifestName>>, CmdManifest(Foo, "1")>>,
           <<Base \o <<"bar", ManifestName>>, Manifest(Bar, "1")>>,
           <<Base \o <<"c", ManifestName>>, NoFrontmatter>> }, {Base})

\* What a change from outside leaves in a manifest file.
Edits ==
    { CmdManifest(Foo, "2"), CmdManifest(<<"renamed">>, "3"), NoFrontmatter,
      Unreadable, BadCommand }

LoaderNames == {Foo, Bar, Ghost}

MaxNames == 2

NameLists == UNION {[1..n -> LoaderNames] : n \in 0..MaxNames}

NoLoad ==
    [op |-> "none", name |-> <<>>, names |-> <<>>, ok |-> TRUE, err |-> "",
     info |-> NoInfo, caps |-> <<>>, prompt |-> <<>>]

\* TalonLoader::from_dir(Base) followed by discover_and_load.
LoaderInit ==
    /\ \E rev \in BOOLEAN :
           LET r == DiscoverTalons(LoaderLayout, FromDir(LoaderLayout, Base).index,
                                   "none", rev)
           IN  /\ fs = r.fs
               /\ index = r.index
               /\ persisted = r.index
    /\ last = NoLoad
    /\ nops = 0

\* A change made from outside the program: the manifest file of an indexed
\* package is overwritten, or the package directory is removed.  The record
\* of the last call is of the files before the change and is dropped.
Edit ==
    /\ \E n \in DOMAIN index.talons :
           \/ \E c \in Edits :
                  LET w == WriteFile(fs, index.talons[n].path \o <<ManifestName>>, c)
                  IN  w.ok /\ fs' = w.fs
           \/ /\ Exists(fs, index.talons[n].path)
              /\ fs' = RemoveDirAll(fs, index.talons[n].path)
    /\ last' = NoLoad
    /\ UNCHANGED <<index, persisted, nops>>

Load ==
    /\ \E name \in LoaderNames :
           LET r == LoadTalon(fs, index, name)
           IN  last' = [NoLoad EXCEPT !.op = "load", !.name = name, !.ok = r.ok,
                                      !.err = r.err, !.info = r.info]
    /\ UNCHANGED <<fs, index, persisted, nops>>

Capabilities ==
    /\ \E name \in LoaderNames :
           LET r == GetCapabilities(fs, index, name)
           IN  last' = [NoLoad EXCEPT !.op = "capabilities", !.name = name,
                                      !.ok = r.ok, !.err = r.err, !.caps = r.caps]
    /\ UNCHANGED <<fs, index, persisted, nops>>

RenderSummary ==
    /\ \E names \in NameLists :
           LET r == GenerateSystemPrompt(fs, index, names)
           IN  last' = [NoLoad EXCEPT !.op = "prompt", !.names = names,
                                      !.ok = r.ok, !.prompt = r.prompt]
    /\ UNCHANGED <<fs, index, persisted, nops>>

LoaderNext == Edit \/ Load \/ Capabilities \/ RenderSummary

LoaderSpec == LoaderInit /\ [][LoaderNext]_vars

(*************************** parse specification ***************************)

MaxContentLen == 5

ContentToks ==
    { Delim, Blank, FreeText, Tok("name", Foo), Tok("version", <<"1">>),
      Tok("description", <<"d">>) }

Contents == UNION {[1..n -> ContentToks] : n \in 0..MaxContentLen}

\* The content to parse is drawn here; last.result is of no content yet.
ParseInit ==
    /\ fs = Layout0
    /\ index = EmptyIndex
    /\ persisted = EmptyIndex
    /\ \E content \in Contents :
           last = [op |-> "none", content |-> content,
                   result |-> [ok |-> FALSE, err |-> "", manifest |-> NoManifest]]
    /\ nops = 0

\* TalonManifest::parse(content).
Parse ==
    /\ last.op = "none"
    /\ last' = [op |-> "parse", content |-> last.content,
                result |-> ManifestParse(last.content)]
    /\ UNCHANGED <<fs, index, persisted, nops>>

ParseSpec == ParseInit /\ [][Parse]_vars

(******************************* claims ************************************)

ManifestOf(d) == d \o <<ManifestName>>

\* The tree below directory d, relative to d.
RelTree(f, d) ==
    {<<SubSeq(p, Len(d) + 1, Len(p)), f[p]>> : p \in Subtree(f, d) \ {d}}

\* The directories under the bound directory, levels below it in lo..hi,
\* that have a manifest file at their root.
ManifestDirs(f, lo, hi) ==
    {d \in DOMAIN f : /\ IsDir(f, d) /\ IsPrefix(Base, d)
                      /\ Len(d) - Len(Base) \in lo..hi
                      /\ IsFile(f, ManifestOf(d))}

Parses(f, d) ==
    ReadToString(f, ManifestOf(d)).ok /\ ManifestParse(f[ManifestOf(d)].content).ok

ParsedManifest(f, d) == ManifestParse(f[ManifestOf(d)].content).manifest

Mutating == {"discover", "add", "remove"}

\* C1: whenever add(sourcePath) returns success with name n, get(n) returns
\* an entry whose path is an existing directory that holds a manifest file
\* with the content the source's manifest had, for every source directory.
C1_AddInstallsManifest ==
    (last.op = "add" /\ last.ok) =>
        LET e == GetTalon(index, last.ret)
        IN  /\ e # <<>>
            /\ IsDir(fs, e[1].path)
            /\ IsFile(fs, ManifestOf(e[1].path))
            /\ fs[ManifestOf(e[1].path)].content
                   = last.preFs[ManifestOf(last.path)].content

\* C2: whenever remove(name) returns success for a name that was in the
\* Index, get(name) is absent afterwards and the directory the entry pointed
\* to no longer exists.
C2_RemoveDeletes ==
    (last.op = "remove" /\ last.ok /\ last.name \in DOMAIN last.preIndex.talons) =>
        /\ GetTalon(index, last.name) = <<>>
        /\ ~Exists(fs, last.preIndex.talons[last.name].path)

C2_Witness ==
    /\ last.op = "remove" /\ last.ok
    /\ last.name \in DOMAIN last.preIndex.talons
    /\ IsDir(last.preFs, last.preIndex.talons[last.name].path)
    /\ IsFile(last.preFs, ManifestOf(last.preIndex.talons[last.name].path))

\* C3: when add or remove fails at any step, the in-memory Index equals the
\* last successfully persisted Index.
C3_FailureKeepsPersisted ==
    (last.op \in {"add", "remove"} /\ ~last.ok) => index = persisted

\* C4: after add was called twice for the same manifest name there is
\* exactly one Index entry for the name, and the destination directory
\* holds exactly the files the second source had.
C4_SecondAddReplaces ==
    (/\ last.op = "add" /\ last.ok
     /\ last.prev.op = "add" /\ last.prev.ok /\ last.prev.ret = last.ret) =>
        /\ Cardinality({k \in DOMAIN index.talons :
                          k = last.ret \/ index.talons[k].name = last.ret}) = 1
        /\ RelTree(fs, index.talons[last.ret].path) = RelTree(last.preFs, last.path)

\* C5: a second discover, run right after a successful discover with no
\* change to the package directories, leaves the Index as the first run
\* left it and returns the same set of packages.
C5_DiscoverIdempotent ==
    (/\ last.op = "discover" /\ last.ok
     /\ last.prev.op = "discover" /\ last.prev.ok) =>
        /\ index = last.preIndex
        /\ Range(last.discovered) = Range(last.prev.discovered)

\* C6: after every successful discover, add or remove that changes the
\* Index, a registry constructed with from_dir on the same directory holds
\* the entries and the version string of the in-memory Index.
C6_PersistedEqualsMemory ==
    (last.op \in Mutating /\ last.ok /\ index # last.preIndex) =>
        /\ FromDir(fs, Base).ok
        /\ FromDir(fs, Base).index = index

C6_Witness ==
    /\ last.op \in Mutating /\ last.ok /\ index # last.preIndex
    /\ \E n \in DOMAIN index.talons :
           index.talons[n].author # <<>> /\ index.talons[n].tags # <<>>
    /\ last.preIndex.talons # EmptyTalons

\* C7: discover does not fail because a manifest is unreadable or does not
\* parse; it returns exactly the packages whose manifests parsed, each with
\* installed = true, upserts an entry keyed by manifest name for each of
\* them and adds no entry for the others.
C7_DiscoverSkipsUnparsable ==
    last.op = "discover" =>
        LET f     == last.preFs
            good  == {d \in ManifestDirs(f, 0, MaxDepth - 1) : Parses(f, d)}
            names == {ParsedManifest(f, d).name : d \in good}
        IN  /\ (last.fault = "none" /\ IsDir(f, Base)) => last.ok
            /\ last.ok =>
                /\ Range(last.discovered)
                       = {TalonInfo(ParsedManifest(f, d), d) : d \in good}
                /\ Len(last.discovered) = Cardinality(good)
                /\ \A i \in 1..Len(last.discovered) : last.discovered[i].installed
                /\ DOMAIN index.talons = DOMAIN last.preIndex.talons \cup names
                /\ \A n \in names : \E d \in good :
                       index.talons[n] = EntryOf(ParsedManifest(f, d), d)
                /\ \A n \in DOMAIN last.preIndex.talons \ names :
                       index.talons[n] = last.preIndex.talons[n]

C7_Witness ==
    /\ last.op = "discover" /\ last.ok
    /\ \E d \in ManifestDirs(last.preFs, 0, MaxDepth - 1) : ~Parses(last.preFs, d)
    /\ \E d \in ManifestDirs(last.preFs, 0, MaxDepth - 1) : Parses(last.preFs, d)

\* C8 as stated: after a successful discover the Index holds an entry under
\* the manifest name of every subdirectory one or two levels below the bound
\* directory (base/a and base/a/b) whose manifest parses.
C8_FindsTwoLevels ==
    (last.op = "discover" /\ last.ok) =>
        \A d \in ManifestDirs(last.preFs, 1, 2) :
            Parses(last.preFs, d) =>
                ParsedManifest(last.preFs, d).name \in DOMAIN index.talons

\* C8 as amended: after a successful discover the Index holds an entry under
\* the manifest name of every subdirectory one level below the bound
\* directory (base/a) whose manifest parses, and discover creates no entry
\* for a directory further down (base/a/b).
C8_FindsOneLevel ==
    (last.op = "discover" /\ last.ok) =>
        /\ \A d \in ManifestDirs(last.preFs, 1, 1) :
               Parses(last.preFs, d) =>
                   ParsedManifest(last.preFs, d).name \in DOMAIN index.talons
        /\ \A n \in DOMAIN index.talons :
               Len(index.talons[n].path) > Len(Base) + 1 =>
                   /\ n \in DOMAIN last.preIndex.talons
                   /\ index.talons[n] = last.preIndex.talons[n]

C8_Witness ==
    /\ last.op = "discover" /\ last.ok
    /\ \E d \in ManifestDirs(last.preFs, 1, 1) : Parses(last.preFs, d)
    /\ \E d \in ManifestDirs(last.preFs, 2, 2) : Parses(last.preFs, d)

\* C9: for every manifest name that parses, add installs into a direct child
\* of the bound directory, and add never deletes or writes the bound
\* directory itself or a path outside the bound directory.
C9_AddStaysInBase ==
    last.op = "add" =>
        /\ last.ok => /\ Parent(index.talons[last.ret].path) = Base
                      /\ Len(index.talons[last.ret].path) = Len(Base) + 1
        /\ \A p \in DOMAIN last.preFs \cup DOMAIN fs :
               (~IsPrefix(Base, p) \/ p = Base) =>
                   /\ p \in DOMAIN last.preFs /\ p \in DOMAIN fs
                   /\ fs[p] = last.preFs[p]

\* C10: remove(name) for a name that is not in the Index succeeds and
\* changes neither the in-memory Index nor anything on disk, the persisted
\* index document included.
C10_RemoveAbsentIsNoOp ==
    (last.op = "remove" /\ last.name \notin DOMAIN last.preIndex.talons) =>
        /\ last.ok
        /\ index = last.preIndex
        /\ fs = last.preFs

C10_Witness ==
    /\ last.op = "remove" /\ last.ok
    /\ last.name \notin DOMAIN last.preIndex.talons
    /\ last.preIndex.talons # EmptyTalons
    /\ last.preIndex # persisted

\* The pattern occurs in the text at some position.
OccursIn(needle, hay) ==
    \E i \in 0..(Len(hay) - Len(needle)) :
        SubSeq(hay, i + 1, i + Len(needle)) = needle

Matches(e, query) ==
    LET q == ToLowercase(query)
    IN  \/ OccursIn(q, ToLowercase(e.name))
        \/ OccursIn(q, ToLowercase(e.description))
        \/ \E i \in 1..Len(e.tags) : OccursIn(q, ToLowercase(e.tags[i]))

\* C11: search(query) returns exactly the Index entries for which the
\* lower-cased query occurs in the lower-cased name, description or one of
\* the tags, each once; it returns a sequence (an empty one when nothing
\* matches) and leaves the Index as it was.
C11_SearchExact ==
    last.op = "search" =>
        LET hits == {n \in DOMAIN index.talons : Matches(index.talons[n], last.query)}
        IN  /\ Range(last.result) = {index.talons[n] : n \in hits}
            /\ Len(last.result) = Cardinality(hits)
            /\ index = last.preIndex

C11_Witness ==
    /\ last.op = "search"
    /\ Len(last.result) = 1
    /\ Cardinality(DOMAIN index.talons) = 2
    /\ \E i \in 1..Len(last.query) : last.query[i] \in Range(UpperCase)
    /\ ~OccursIn(ToLowercase(last.query), ToLowercase(last.result[1].name))
    /\ ~OccursIn(ToLowercase(last.query), ToLowercase(last.result[1].description))

C11_WitnessEmpty ==
    /\ last.op = "search" /\ last.result = <<>> /\ index.talons # EmptyTalons

\* C12: every way of constructing a Registry starts from an empty Index
\* with version "1.0" when no index document exists and fails when the
\* document exists but is malformed; none falls back to an empty Index.
C12_ConstructionNoFallback ==
    last.op \in {"new", "from_dir", "default"} =>
        LET doc == last.dir \o <<IndexName>>
        IN  /\ (last.ok /\ (last.dir = <<>> \/ ~Exists(last.preFs, doc))) =>
                   last.registry.index = EmptyIndex
            /\ (last.dir # <<>> /\ Exists(last.preFs, doc)
                   /\ ~LoadIndex(last.preFs, last.dir).ok) => ~last.ok

\* C12 for new() and from_dir() alone.
C12_NewAndFromDir ==
    last.op \in {"new", "from_dir"} => C12_ConstructionNoFallback

\* C13: load(name) fails with NotFound when the Index has no entry for
\* name; otherwise it answers from the manifest file that is at the entry's
\* path when it is called (fs, which no loader call changes): it returns that file's parsed manifest with the
\* entry's path and installed = true, and fails when the file is missing,
\* unreadable or unparsable, whatever the entry's summary fields say.
C13_LoadReadsDisk ==
    last.op = "load" =>
        IF last.name \notin DOMAIN index.talons
        THEN ~last.ok /\ last.err = "NotFound"
        ELSE LET d == index.talons[last.name].path
             IN  IF Parses(fs, d)
                 THEN /\ last.ok
                      /\ last.info = [manifest |-> ParsedManifest(fs, d),
                                      path |-> d, installed |-> TRUE]
                 ELSE ~last.ok /\ last.err # "NotFound"

\* A load that returned content written after the entry was created.
C13_Witness ==
    /\ last.op = "load" /\ last.ok
    /\ last.info.manifest.version # index.talons[last.name].version
    /\ last.info.manifest.version = "2"

C13_WitnessNotFound == last.op = "load" /\ ~last.ok /\ last.err = "NotFound"

\* The entry of name has a manifest file that can be read and parsed.
Loadable(name) ==
    name \in DOMAIN index.talons /\ Parses(fs, index.talons[name].path)

\* The manifest load(name) returns when name is loadable.
OnDisk(name) == ParsedManifest(fs, index.talons[name].path)

\* C14: a successful capabilities(name) returns one capability per command
\* of the package's manifest, in declaration order, each identified by
\* "<package>.<command>", the package's name being the name it is indexed
\* and asked for under; a manifest without commands yields an empty list.
C14_CapabilityIds ==
    (last.op = "capabilities" /\ last.ok) =>
        LET cmds == OnDisk(last.name).commands
        IN  /\ Loadable(last.name)
            /\ index.talons[last.name].name = last.name
            /\ Len(last.caps) = Len(cmds)
            /\ \A i \in 1..Len(cmds) :
                   last.caps[i].name = last.name \o <<".", cmds[i].name>>
            /\ cmds = <<>> => last.caps = <<>>

\* Two commands, in the manifest's order.
C14_Witness ==
    /\ last.op = "capabilities" /\ last.ok
    /\ Len(last.caps) = 2
    /\ last.caps[1].name = <<"foo", ".", "run">>
    /\ last.caps[2].name = <<"foo", ".", "stop">>

C14_WitnessEmpty == last.op = "capabilities" /\ last.ok /\ last.caps = <<>>

\* C15: each capability carries its command's description and one argument
\* record per declared argument, in order, with the argument's name, type
\* tag and required flag, and with the argument's description when the
\* manifest declares one.
C15_ArgsPreserved ==
    (last.op = "capabilities" /\ last.ok) =>
        LET cmds == OnDisk(last.name).commands
        IN  \A i \in 1..Len(cmds) :
                /\ last.caps[i].description = cmds[i].description
                /\ Len(last.caps[i].args) = Len(cmds[i].args)
                /\ \A j \in 1..Len(cmds[i].args) :
                       LET a == cmds[i].args[j]
                           c == last.caps[i].args[j]
                       IN  /\ c.name = a.name
                           /\ c.type = a.type
                           /\ c.required = a.required
                           /\ a.description # <<>> =>
                                  /\ "description" \in DOMAIN c
                                  /\ c.description = a.description

\* C15 without the argument's description.
C15_ArgsWithoutDescription ==
    (last.op = "capabilities" /\ last.ok) =>
        LET cmds == OnDisk(last.name).commands
        IN  \A i \in 1..Len(cmds) :
                /\ last.caps[i].description = cmds[i].description
                /\ Len(last.caps[i].args) = Len(cmds[i].args)
                /\ \A j \in 1..Len(cmds[i].args) :
                       /\ last.caps[i].args[j].name = cmds[i].args[j].name
                       /\ last.caps[i].args[j].type = cmds[i].args[j].type
                       /\ last.caps[i].args[j].required = cmds[i].args[j].required

\* prompt, from position at on, is what names render to: nothing for a
\* name that cannot be loaded, and for a loadable one the heading, the
\* description and, only when there are commands, the command list.
RECURSIVE Rendered(_, _, _)
Rendered(names, prompt, at) ==
    IF names = <<>> THEN at = Len(prompt) + 1
    ELSE IF ~Loadable(Head(names)) THEN Rendered(Tail(names), prompt, at)
    ELSE LET m == OnDisk(Head(names))
             k == Len(m.commands)
         IN  /\ at + 1 <= Len(prompt)
             /\ prompt[at] = Line("## {} (v{})\n", <<m.name, <<m.version>>>>)
             /\ prompt[at + 1] = Line("{}\n\n", <<<<m.description>>>>)
             /\ IF k = 0 THEN Rendered(Tail(names), prompt, at + 2)
                ELSE /\ at + 3 + k <= Len(prompt)
                     /\ prompt[at + 2] = Line("Commands:\n", <<>>)
                     /\ \A i \in 1..k :
                            prompt[at + 2 + i] =
                                Line("- {}: {}\n", << <<m.commands[i].name>>,
                                                      <<m.commands[i].description>> >>)
                     /\ prompt[at + 3 + k] = Line("\n", <<>>)
                     /\ Rendered(Tail(names), prompt, at + 4 + k)

\* C16: renderSummary(names) never fails; after the preamble its output
\* has nothing for a name that is not in the Index or whose manifest is
\* unreadable or unparsable, and for every loadable name, in the order of
\* names, a heading with name and version, the description, and a command
\* list only if the manifest declares a command.
C16_RenderSkipsFailures ==
    last.op = "prompt" =>
        /\ last.ok
        /\ last.prompt # <<>>
        /\ last.prompt[1] = Preamble
        /\ Rendered(last.names, last.prompt, 2)

\* A name that is skipped followed by a package with commands.
C16_Witness ==
    /\ last.op = "prompt" /\ Len(last.names) = 2
    /\ ~Loadable(last.names[1])
    /\ Loadable(last.names[2]) /\ OnDisk(last.names[2]).commands # <<>>

\* An indexed package whose manifest no longer parses, and a package
\* without commands.
C16_WitnessNoCommands ==
    /\ last.op = "prompt" /\ Len(last.names) = 2
    /\ last.names[1] \in DOMAIN index.talons /\ ~Loadable(last.names[1])
    /\ Loadable(last.names[2]) /\ OnDisk(last.names[2]).commands = <<>>

\* The positions of the delimiters in content.
DelimsOf(c) == {i \in 1..Len(c) : c[i] = Delim}

Least(S) == CHOOSE i \in S : \A j \in S : i <= j

\* C17: parse discards what is before the first delimiter and takes the
\* text between the first delimiter and the second (the end of the content
\* when there is no second one) as the frontmatter: what surrounds that text
\* plays no part in the result.  It fails with MissingFrontmatter when the
\* content has no delimiter or that text is empty or blank, fails with
\* InvalidFrontmatter when a non-blank frontmatter lacks name, version or
\* description, and returns the declared fields when it has each once.
C17_ParseFrontmatter ==
    last.op = "parse" =>
        LET c == last.content
            r == last.result
        IN  IF DelimsOf(c) = {}
            THEN ~r.ok /\ r.err = "MissingFrontmatter"
            ELSE LET d1 == Least(DelimsOf(c))
                     later == DelimsOf(c) \ {d1}
                     end == IF later = {} THEN Len(c) + 1 ELSE Least(later)
                     between == SubSeq(c, d1 + 1, end - 1)
                     blank == \A i \in 1..Len(between) : between[i] = Blank
                     Has(k) == \E i \in 1..Len(between) : between[i].k = k
                     Once(k) == Cardinality({i \in 1..Len(between) :
                                                 between[i].k = k}) = 1
                 IN  /\ r = ManifestParse(<<Delim>> \o between)
                     /\ blank => (~r.ok /\ r.err = "MissingFrontmatter")
                     /\ (~blank /\ \E k \in RequiredFields : ~Has(k)) =>
                            (~r.ok /\ r.err = "InvalidFrontmatter")
                     /\ (FreeText \notin Range(between)
                            /\ \A k \in RequiredFields : Once(k)) =>
                            /\ r.ok
                            /\ r.manifest.name = Foo
                            /\ r.manifest.version = "1"
                            /\ r.manifest.description = "d"

\* A successful parse of a content with text before the first delimiter.
C17_Witness ==
    /\ last.op = "parse" /\ last.result.ok
    /\ Head(last.content) = FreeText

\* A blank frontmatter between two delimiters.
C17_WitnessBlank ==
    /\ last.op = "parse" /\ last.result.err = "MissingFrontmatter"
    /\ Cardinality(DelimsOf(last.content)) >= 2
    /\ Blank \in Range(last.content)

\* A frontmatter that lacks a required field.
C17_WitnessInvalid ==
    /\ last.op = "parse" /\ last.result.err = "InvalidFrontmatter"
    /\ Tok("name", Foo) \in Range(last.content)

\* A closed frontmatter followed by more text.
C17_WitnessClosed ==
    /\ last.op = "parse" /\ last.result.ok
    /\ last.content[Len(last.content)] = Delim

IndexDoc == Base \o <<IndexName>>

\* C18: in every state reached by discover, add and remove calls, successful
\* or failed, every Index entry's path is an existing directory that has a
\* manifest file at its root.
C18_EntriesOnDisk ==
    \A n \in DOMAIN index.talons :
        /\ IsDir(fs, index.talons[n].path)
        /\ IsFile(fs, ManifestOf(index.talons[n].path))

\* C19: a successful add or remove of package n leaves every other Index
\* entry unchanged, leaves every file and directory that was in the
\* directory of another indexed package as it was, and leaves the index
\* document in the bound directory if there was one, also for entries that discover made
\* from a manifest placed directly in the bound directory.
C19_OnlyTouchesOwnPackage ==
    (last.op \in {"add", "remove"} /\ last.ok) =>
        LET n == IF last.op = "add" THEN last.ret ELSE last.name
            others == DOMAIN last.preIndex.talons \ {n}
        IN  /\ \A m \in others :
                   /\ m \in DOMAIN index.talons
                   /\ index.talons[m] = last.preIndex.talons[m]
                   /\ \A p \in Subtree(last.preFs, last.preIndex.talons[m].path) :
                          p # IndexDoc => (p \in DOMAIN fs /\ fs[p] = last.preFs[p])
            /\ IsFile(last.preFs, IndexDoc) => IsFile(fs, IndexDoc)

\* C19 for remove alone.
C19_RemoveOnlyTouchesOwnPackage ==
    last.op = "remove" => C19_OnlyTouchesOwnPackage

\* C18 after calls that all succeeded with no call made to fail.
C18_EntriesOnDiskAfterSuccess ==
    (last.ok /\ last.fault = "none" /\ last.prev.ok) => C18_EntriesOnDisk

\* The files below directory d, by their path relative to d, the index
\* document of the bound directory left out.
FilesBelow(f, d) ==
    {<<SubSeq(p, Len(d) + 1, Len(p)), f[p].content>> :
         p \in {q \in Subtree(f, d) : IsFile(f, q) /\ q # IndexDoc}}

\* add reaches its recursive copy: the source's manifest parses, the
\* destination is not a file and no call is made to fail.
CopyReached ==
    /\ last.op = "add" /\ last.fault = "none"
    /\ Parses(last.preFs, last.path)
    /\ ~IsFile(last.preFs, PathJoin(Base, ParsedManifest(last.preFs, last.path).name))

CopyDest == PathJoin(Base, ParsedManifest(last.preFs, last.path).name)

\* C20: when add reaches its recursive copy, the copy ends and leaves in
\* the destination each file the source had when add was called, once, at
\* the same relative path, and no other file, also when the destination
\* lies inside the source.
C20_CopyExact ==
    CopyReached => FilesBelow(fs, CopyDest) = FilesBelow(last.preFs, last.path)

\* C20 for a destination that neither lies in the source nor holds it.
C20_CopyExactApart ==
    (CopyReached /\ ~IsPrefix(last.path, CopyDest) /\ ~IsPrefix(CopyDest, last.path))
        => FilesBelow(fs, CopyDest) = FilesBelow(last.preFs, last.path)

\* The destination lies inside the source and differs from it.
C20_DestInsideSource ==
    (CopyReached /\ IsPrefix(last.path, CopyDest) /\ last.path # CopyDest)
        => FilesBelow(fs, CopyDest) = FilesBelow(last.preFs, last.path)

====
